---- MODULE Spec2Model ----
(***************************************************************************)
(* AutoThreads (src/src/AutoThreads.ts): the MESSAGE_CREATE pipeline that  *)
(* opens a thread for every eligible message, and the permission-gated     *)
(* edit / archive interactions on the thread's controls.                   *)
(*                                                                         *)
(* Strings are sequences of one-character strings, so that includes,       *)
(* split, concatenation and truncation are computed and not assumed.       *)
(* An optional value (undefined / null in the source) is <<>> when absent  *)
(* and <<v>> when present.                                                 *)
(***************************************************************************)
EXTENDS Integers, Sequences, FiniteSets, TLC

VARIABLES topicKeyword, inbox, subscription, pc, chan, tries, info, calls,
          ix, handler, ixpc, authorId, ixCalls, ixResp

msgVars == <<topicKeyword, inbox, subscription, pc, chan, tries, info, calls>>
ixVars  == <<ix, handler, ixpc, authorId, ixCalls, ixResp>>
vars    == <<topicKeyword, inbox, subscription, pc, chan, tries, info, calls,
             ix, handler, ixpc, authorId, ixCalls, ixResp>>

----------------------------------------------------------------------------
(* Bounds of the model. *)

\* Number of MESSAGE_CREATE events the gateway delivers.
NumMsgs == 2

\* Length of the longest title the classifier returns.
MaxTitleLen == 150

Msgs == 1..NumMsgs

----------------------------------------------------------------------------
(* Program constants. *)

\* Schedule.recurs(2): the number of retries after the first attempt.
RetryRecurs == 2

\* Str.truncate(info.short_title, 100)
ThreadNameMax == 100

\* Discord.PermissionFlag.MANAGE_CHANNELS, bit 4 of the permission set.
ManageChannels == 16

\* Length of the longest remainder of a custom id that is parsed.
MaxIdLen == 3

----------------------------------------------------------------------------
(* Strings. *)

None == <<>>
Some(v) == <<v>>

EditPrefix == <<"e", "d", "i", "t", "_">>
ArchivePrefix == <<"a", "r", "c", "h", "i", "v", "e", "_">>
EditModalId == <<"e", "d", "i", "t">>
ThreadSuffix == <<"'", "s", " ", "t", "h", "r", "e", "a", "d">>

Digits == <<"0", "1", "2", "3", "4", "5", "6", "7", "8", "9">>

\* A title of n characters in which neighbouring characters differ.
Title(n) == [i \in 1..n |-> Digits[(i % 10) + 1]]

\* String.prototype.startsWith
StartsWith(s, p) == Len(s) >= Len(p) /\ SubSeq(s, 1, Len(p)) = p

\* Schema.includes(kw): kw occurs in s as a contiguous substring.
Includes(s, kw) ==
  \E i \in 0..(Len(s) - Len(kw)) : SubSeq(s, i + 1, i + Len(kw)) = kw

\* Str.truncate(str, len): hard cut to the first len characters.
Truncate(str, len) == IF Len(str) > len THEN SubSeq(str, 1, len) ELSE str

----------------------------------------------------------------------------
(* Inputs: the events and replies the collaborators can supply. *)

Users ==
  { [id |-> <<"1">>, username |-> <<"a", "l">>],
    [id |-> <<"2", "3">>, username |-> <<"b">>] }

\* message.member?.nick
Nicks == { None, Some(<<"N", "k">>) }

\* Discord.MessageType: DEFAULT and one other.
MessageTypes == { "DEFAULT", "REPLY" }

\* author.bot: the field is optional.
BotFlags == { "undefined", "false", "true" }

TitleLens == { 2, ThreadNameMax, ThreadNameMax + 1, MaxTitleLen }

\* message.content, named by what the classifier extracts from it.
Contents ==
  [ short_title : { Title(n) : n \in TitleLens },
    has_code_examples : BOOLEAN,
    has_code_fences : BOOLEAN ]

AllMessages ==
  [ type : MessageTypes, bot : BotFlags, author : Users, nick : Nicks,
    channel_id : { "c1" }, content : Contents ]

\* The event of the concurrent specification: a user's message with unfenced
\* code, delivered once per pipeline.
ConcMessages ==
  { p \in AllMessages :
      /\ p.type = "DEFAULT"
      /\ p.bot = "undefined"
      /\ p.nick = None
      /\ p.author.id = <<"1">>
      /\ Len(p.content.short_title) = 2
      /\ p.content.has_code_examples
      /\ ~p.content.has_code_fences }

Keywords == { <<"t">>, <<"c", "a">> }

Topics == { None, Some(<<>>), Some(<<"a", "t">>), Some(<<"c", "a", "t", "s">>),
            Some(<<"t", "a">>) }

ChannelTypes == { "GUILD_TEXT", "GUILD_VOICE" }

\* What channels.get can answer for channel id c: a failure, or the metadata.
ChannelReplies(c) ==
  { [found |-> FALSE, id |-> c, topic |-> None, type |-> "none"] }
  \cup [ found : { TRUE }, id : { c }, topic : Topics, type : ChannelTypes ]

\* The outcome of one openai.fn call: a result, the OpenAIError failure, or a
\* failure of another kind.
Outcomes == { "Success", "OpenAIError", "OtherError" }

\* The id of message m; the thread started from a message carries its id.
MessageId(m) == ToString(m)

----------------------------------------------------------------------------
(* handleMessages: the pure parts. *)

\* EligibleMessage without the author.bot field.
EligibleMessageAnyAuthor(message) == message.type = "DEFAULT"

\* EligibleMessage: type is DEFAULT and author.bot is absent or false.
EligibleMessage(message) ==
  /\ message.type = "DEFAULT"
  /\ message.bot \in { "undefined", "false" }

\* EligibleChannel without the includes filter on the topic.
EligibleChannelAnyTopic(channel, keyword) ==
  channel.topic # None /\ channel.type = "GUILD_TEXT"

\* EligibleChannel: topic is a string that includes the keyword, type is
\* GUILD_TEXT.
EligibleChannel(channel, keyword) ==
  /\ channel.topic # None
  /\ Includes(channel.topic[1], keyword)
  /\ channel.type = "GUILD_TEXT"

\* missingCodeFences without the has_code_fences test.
MissingCodeFencesAnyFence(mi) == mi.has_code_examples

\* MessageInfo.missingCodeFences
MissingCodeFences(mi) == mi.has_code_examples /\ ~mi.has_code_fences

\* The MessageInfo openai.fn returns for a message content when it succeeds.
Answer(content) ==
  [ short_title |-> content.short_title,
    has_code_examples |-> content.has_code_examples,
    has_code_fences |-> content.has_code_fences ]

\* A while predicate that retries every failure.
RetryWhileAny(err) == TRUE

\* Effect.retry's while: only an OpenAIError is retried.
RetryWhile(err) == err = "OpenAIError"

\* A schedule that allows one retry more.
ScheduleAllowsOneMore(retriesDone) == retriesDone <= RetryRecurs

\* retryPolicy: a further retry is allowed while fewer than RetryRecurs were made.
ScheduleAllows(retriesDone) == retriesDone < RetryRecurs

\* Option.fromNullable(message.member?.nick) |> getOrElse(author.username)
DisplayName(message) ==
  IF message.nick # None THEN message.nick[1] ELSE message.author.username

\* The MessageInfo built when classification failed.
Fallback(message) ==
  [ short_title |-> DisplayName(message) \o ThreadSuffix,
    has_code_examples |-> FALSE,
    has_code_fences |-> FALSE ]

\* A classification without recovery: the failure stays a failure.
OrElseFail(message) == None

\* Effect.orElseSucceed: a failed classification is replaced by the fallback.
OrElseSucceed(message) == Some(Fallback(message))

\* A thread name that is the title as it is.
ThreadNameUncut(mi) == mi.short_title

\* name: Str.truncate(info.short_title, 100)
ThreadName(mi) == Truncate(mi.short_title, ThreadNameMax)

\* Buttons tagged with the author's name in place of the author's id.
ControlIdsByUsername(message) ==
  << EditPrefix \o message.author.username,
     ArchivePrefix \o message.author.username >>

\* custom_id of the two buttons of the control message, in their order.
ControlIds(message) ==
  << EditPrefix \o message.author.id, ArchivePrefix \o message.author.id >>

\* Effect.catchTags({ ParseError: ... })
CatchTags(tag) == tag = "ParseError"

\* A handler without the final catchAllCause.
CatchNothingElse(tag) == FALSE

\* Effect.catchAllCause(Effect.logError)
CatchAllCause(tag) == TRUE

----------------------------------------------------------------------------
(* handleMessages: one pipeline per MESSAGE_CREATE event. *)

Message(m) == inbox[m][1]

Terminal == { "Done", "Rejected", "Failed", "Escaped" }

\* A REST request of pipeline m, with whether the platform accepted it.
Call(kind, target, name, ids, ok) ==
  [ kind |-> kind, target |-> target, name |-> name, custom_ids |-> ids,
    ok |-> ok ]

\* The pipeline of m fails with an error of kind tag: ParseError is logged at
\* debug level, every other cause is logged as an error; a cause that nothing
\* catches fails the handler and with it the subscription.
Exit(m, tag) ==
  IF CatchTags(tag)
  THEN /\ pc' = [pc EXCEPT ![m] = "Rejected"]
       /\ UNCHANGED subscription
  ELSE IF CatchAllCause(tag)
  THEN /\ pc' = [pc EXCEPT ![m] = "Failed"]
       /\ UNCHANGED subscription
  ELSE /\ pc' = [pc EXCEPT ![m] = "Escaped"]
       /\ subscription' = "failed"

\* The gateway hands message m to the handler, which decodes it.
Dispatch(m) ==
  /\ subscription = "active"
  /\ inbox[m] # None
  /\ pc[m] = "Idle"
  /\ IF EligibleMessage(Message(m))
     THEN pc' = [pc EXCEPT ![m] = "Lookup"] /\ UNCHANGED subscription
     ELSE Exit(m, "ParseError")
  /\ UNCHANGED <<topicKeyword, inbox, chan, tries, info, calls>>
  /\ UNCHANGED ixVars

\* channels.get answers, and the channel is decoded.
Lookup(m) ==
  /\ subscription = "active"
  /\ pc[m] = "Lookup"
  /\ \E r \in ChannelReplies(Message(m).channel_id) :
       /\ chan' = [chan EXCEPT ![m] = Some(r)]
       /\ IF ~r.found THEN Exit(m, "CacheMiss")
          ELSE IF EligibleChannel(r, topicKeyword)
          THEN pc' = [pc EXCEPT ![m] = "Classify"] /\ UNCHANGED subscription
          ELSE Exit(m, "ParseError")
  /\ UNCHANGED <<topicKeyword, inbox, tries, info, calls>>
  /\ UNCHANGED ixVars

\* One attempt of openai.fn ends; it is retried, or the info is bound.
Classify(m) ==
  /\ subscription = "active"
  /\ pc[m] = "Classify"
  /\ \E o \in Outcomes :
       /\ tries' = [tries EXCEPT ![m] = Append(@, o)]
       /\ IF o = "Success"
          THEN /\ info' = [info EXCEPT ![m] = Some(Answer(Message(m).content))]
               /\ pc' = [pc EXCEPT ![m] = "CreateThread"]
               /\ UNCHANGED subscription
          ELSE IF RetryWhile(o) /\ ScheduleAllows(Len(tries[m]))
          THEN UNCHANGED <<info, pc, subscription>>
          ELSE /\ info' = [info EXCEPT ![m] = OrElseSucceed(Message(m))]
               /\ IF OrElseSucceed(Message(m)) # None
                  THEN pc' = [pc EXCEPT ![m] = "CreateThread"]
                       /\ UNCHANGED subscription
                  ELSE Exit(m, o)
  /\ UNCHANGED <<topicKeyword, inbox, chan, calls>>
  /\ UNCHANGED ixVars

\* A thread bind whose failure is ignored: the pipeline goes on.
CreateThreadUnchecked(m) ==
  /\ subscription = "active"
  /\ pc[m] = "CreateThread"
  /\ \E ok \in BOOLEAN :
       calls' = [calls EXCEPT ![m] =
         Append(@, Call("startThreadFromMessage", chan[m][1].id,
                        ThreadName(info[m][1]), <<>>, ok))]
  /\ pc' = [pc EXCEPT ![m] = "PostControls"]
  /\ UNCHANGED <<topicKeyword, inbox, subscription, chan, tries, info>>
  /\ UNCHANGED ixVars

\* A thread bind that is tried once more after a failure.
CreateThreadRetried(m) ==
  /\ subscription = "active"
  /\ pc[m] = "CreateThread"
  /\ \E ok \in BOOLEAN :
       /\ calls' = [calls EXCEPT ![m] =
            Append(@, Call("startThreadFromMessage", chan[m][1].id,
                           ThreadName(info[m][1]), <<>>, ok))]
       /\ IF ok
          THEN pc' = [pc EXCEPT ![m] = "PostControls"] /\ UNCHANGED subscription
          ELSE IF calls[m] = <<>>
          THEN UNCHANGED <<pc, subscription>>
          ELSE Exit(m, "DiscordRESTError")
  /\ UNCHANGED <<topicKeyword, inbox, chan, tries, info>>
  /\ UNCHANGED ixVars

\* rest.startThreadFromMessage(channel.id, message.id, {name, 1440})
CreateThread(m) ==
  /\ subscription = "active"
  /\ pc[m] = "CreateThread"
  /\ \E ok \in BOOLEAN :
       /\ calls' = [calls EXCEPT ![m] =
            Append(@, Call("startThreadFromMessage", chan[m][1].id,
                           ThreadName(info[m][1]), <<>>, ok))]
       /\ IF ok
          THEN pc' = [pc EXCEPT ![m] = "PostControls"] /\ UNCHANGED subscription
          ELSE Exit(m, "DiscordRESTError")
  /\ UNCHANGED <<topicKeyword, inbox, chan, tries, info>>
  /\ UNCHANGED ixVars

\* rest.createMessage(thread.id, {components: [edit, archive]})
PostControls(m) ==
  /\ subscription = "active"
  /\ pc[m] = "PostControls"
  /\ \E ok \in BOOLEAN :
       /\ calls' = [calls EXCEPT ![m] =
            Append(@, Call("controls", MessageId(m), <<>>,
                           ControlIds(Message(m)), ok))]
       /\ IF ok
          THEN pc' = [pc EXCEPT ![m] = "PostHint"] /\ UNCHANGED subscription
          ELSE Exit(m, "DiscordRESTError")
  /\ UNCHANGED <<topicKeyword, inbox, chan, tries, info>>
  /\ UNCHANGED ixVars

\* rest.createMessage(thread.id, {content: hint}) when info.missingCodeFences
PostHint(m) ==
  /\ subscription = "active"
  /\ pc[m] = "PostHint"
  /\ IF MissingCodeFences(info[m][1])
     THEN \E ok \in BOOLEAN :
            /\ calls' = [calls EXCEPT ![m] =
                 Append(@, Call("hint", MessageId(m), <<>>, <<>>, ok))]
            /\ IF ok
               THEN pc' = [pc EXCEPT ![m] = "Done"] /\ UNCHANGED subscription
               ELSE Exit(m, "DiscordRESTError")
     ELSE /\ pc' = [pc EXCEPT ![m] = "Done"]
          /\ UNCHANGED <<calls, subscription>>
  /\ UNCHANGED <<topicKeyword, inbox, chan, tries, info>>
  /\ UNCHANGED ixVars

\* A step of the pipeline of m once the event was dispatched.
Step(m) ==
  \/ Lookup(m)
  \/ Classify(m)
  \/ CreateThread(m)
  \/ PostControls(m)
  \/ PostHint(m)

----------------------------------------------------------------------------
(* Specifications of the message pipeline. *)

IxIdle ==
  /\ ix = None
  /\ handler = "none"
  /\ ixpc = "Idle"
  /\ authorId = None
  /\ ixCalls = <<>>
  /\ ixResp = None

PipelinesIdle ==
  /\ subscription = "active"
  /\ pc = [m \in Msgs |-> "Idle"]
  /\ chan = [m \in Msgs |-> None]
  /\ tries = [m \in Msgs |-> <<>>]
  /\ info = [m \in Msgs |-> None]
  /\ calls = [m \in Msgs |-> <<>>]

\* One event, drawn from every message the gateway can deliver.
Init ==
  /\ topicKeyword \in Keywords
  /\ \E p \in AllMessages :
       inbox = [m \in Msgs |-> IF m = 1 THEN Some(p) ELSE None]
  /\ PipelinesIdle
  /\ IxIdle

\* NumMsgs events of users, handled concurrently.
InitConc ==
  /\ topicKeyword = <<"c", "a">>
  /\ inbox \in [Msgs -> { Some(p) : p \in ConcMessages }]
  /\ PipelinesIdle
  /\ IxIdle

Next ==
  \E m \in Msgs :
    \/ Dispatch(m)
    \/ Lookup(m)
    \/ Classify(m)
    \/ CreateThread(m)
    \/ PostControls(m)
    \/ PostHint(m)

Spec == Init /\ [][Next]_vars

\* Every pipeline that can take a step eventually takes one: the runtime
\* schedules every fibre and every awaited call returns.
Fairness == \A m \in Msgs : WF_vars(Dispatch(m)) /\ WF_vars(Step(m))

FairSpec == Init /\ [][Next]_vars /\ Fairness

SpecConc == InitConc /\ [][Next]_vars

FairSpecConc == InitConc /\ [][Next]_vars /\ Fairness

----------------------------------------------------------------------------
(* Interactions: the inputs. *)

\* The ids of the users who click: the two authors and a third user.
ClickerIds == { u.id : u \in Users } \cup { <<"7">> }

\* member.permissions: no bit, a bit other than MANAGE_CHANNELS, MANAGE_CHANNELS
\* alone, both.
PermissionSets == { 0, 2048, ManageChannels, ManageChannels + 2048 }

\* The custom ids of the buttons the pipeline posts, and one of another feature.
ComponentIds ==
  { EditPrefix \o u.id : u \in Users }
  \cup { ArchivePrefix \o u.id : u \in Users }
  \cup { <<"d", "o", "c", "s">> }

\* The value of the modal's "title" field.
SubmittedTitles == { <<>>, <<"n", "e", "w">> }

\* An interaction of a guild member in a thread.
Interactions ==
  [ type : { "MESSAGE_COMPONENT" }, custom_id : ComponentIds,
    user : ClickerIds, permissions : PermissionSets, channel_id : { "1" },
    title : { None } ]
  \cup
  [ type : { "MODAL_SUBMIT" }, custom_id : { EditModalId },
    user : ClickerIds, permissions : PermissionSets, channel_id : { "1" },
    title : { Some(t) : t \in SubmittedTitles } ]

\* The names channels.get can report for the thread.
ChannelNames == { <<"o", "l", "d">> }

----------------------------------------------------------------------------
(* Interactions: the pure parts. *)

\* The index of the first occurrence of character c in s, 0 when there is none.
IndexOf(s, c) ==
  IF \E i \in 1..Len(s) : s[i] = c
  THEN CHOOSE i \in 1..Len(s) : s[i] = c /\ \A j \in 1..(i - 1) : s[j] # c
  ELSE 0

RECURSIVE Split(_, _)
\* String.prototype.split with a one-character separator.
Split(s, c) ==
  IF IndexOf(s, c) = 0 THEN << s >>
  ELSE << SubSeq(s, 1, IndexOf(s, c) - 1) >>
         \o Split(SubSeq(s, IndexOf(s, c) + 1, Len(s)), c)

\* The part before the first underscore: split("_")[0].
AuthorIdFirstPart(custom_id) == Some(Split(custom_id, "_")[1])

\* ctx.custom_id.split("_")[1]: undefined when there is no second part.
AuthorId(custom_id) ==
  IF Len(Split(custom_id, "_")) >= 2
  THEN Some(Split(custom_id, "_")[2]) ELSE None

\* hasManage = Perms.has(Discord.PermissionFlag.MANAGE_CHANNELS)
HasManage(permissions) == (permissions \div ManageChannels) % 2 = 1

\* canEdit with the author alone.
CanEditAuthorOnly(i) == AuthorId(i.custom_id) = Some(i.user)

\* canEdit: the clicker is the embedded author, or holds MANAGE_CHANNELS.
CanEdit(i) == AuthorId(i.custom_id) = Some(i.user) \/ HasManage(i.permissions)

\* The error withEditPermissions fails with, for the handler it wraps.
PermissionsError(h) == [ action |-> "edit", subject |-> "thread" ]

\* The handler the builder runs: archive, edit and editSubmit, in that order.
HandlerFor(i) ==
  IF i.type = "MESSAGE_COMPONENT" /\ StartsWith(i.custom_id, ArchivePrefix)
  THEN "archive"
  ELSE IF i.type = "MESSAGE_COMPONENT" /\ StartsWith(i.custom_id, EditPrefix)
  THEN "edit"
  ELSE IF i.type = "MODAL_SUBMIT" /\ i.custom_id = EditModalId
  THEN "editSubmit"
  ELSE "none"

\* Only the edit handler is wrapped by withEditPermissions.
GuardedEditOnly(h) == h = "edit"

\* Whether the handler is wrapped by withEditPermissions.
Guarded(h) == h \in { "edit", "archive" }

Response(type, flags, content, value) ==
  [ type |-> type, flags |-> flags, content |-> content, value |-> value ]

\* catchTagRespond("PermissionsError", ...)
Denial(err) ==
  Response("CHANNEL_MESSAGE_WITH_SOURCE", "EPHEMERAL",
           << "You don't have permission to ", err.action, " this ",
              err.subject, "." >>, None)

\* The modal of the edit handler, pre-filled with the channel name.
Modal(name) == Response("MODAL", "none", <<>>, Some(name))

DeferredUpdate == Response("DEFERRED_UPDATE_MESSAGE", "none", <<>>, None)

\* A call an interaction handler makes, with whether it succeeded.
IxCall(op, target, name, archived, ok) ==
  [ op |-> op, target |-> target, name |-> name, archived |-> archived,
    ok |-> ok ]

----------------------------------------------------------------------------
(* Interactions: the handlers. *)

\* An interaction arrives and the builder picks its handler.
IxReceive(i) ==
  /\ ixpc = "Idle"
  /\ ix' = Some(i)
  /\ handler' = HandlerFor(i)
  /\ ixpc' = IF HandlerFor(i) = "none" THEN "Done"
             ELSE IF Guarded(HandlerFor(i)) THEN "Auth" ELSE "Body"
  /\ UNCHANGED <<authorId, ixCalls, ixResp>>
  /\ UNCHANGED msgVars

\* withEditPermissions: fail with PermissionsError, or run the wrapped handler.
IxAuthorize ==
  /\ ixpc = "Auth"
  /\ authorId' = AuthorId(ix[1].custom_id)
  /\ IF CanEdit(ix[1])
     THEN ixpc' = "Body" /\ UNCHANGED ixResp
     ELSE /\ ixpc' = "Done"
          /\ ixResp' = Some(Denial(PermissionsError(handler)))
  /\ UNCHANGED <<ix, handler, ixCalls>>
  /\ UNCHANGED msgVars

\* edit: channels.get, then the modal.
IxEdit ==
  /\ ixpc = "Body"
  /\ handler = "edit"
  /\ \E ok \in BOOLEAN, n \in ChannelNames :
       /\ ixCalls' = Append(ixCalls,
            IxCall("channels.get", ix[1].channel_id, None, FALSE, ok))
       /\ ixResp' = IF ok THEN Some(Modal(n)) ELSE None
  /\ ixpc' = "Done"
  /\ UNCHANGED <<ix, handler, authorId>>
  /\ UNCHANGED msgVars

\* archive: rest.modifyChannel(channel_id, {archived: true}), then the
\* deferred update.
IxArchive ==
  /\ ixpc = "Body"
  /\ handler = "archive"
  /\ \E ok \in BOOLEAN :
       /\ ixCalls' = Append(ixCalls,
            IxCall("modifyChannel", ix[1].channel_id, None, TRUE, ok))
       /\ ixResp' = IF ok THEN Some(DeferredUpdate) ELSE None
  /\ ixpc' = "Done"
  /\ UNCHANGED <<ix, handler, authorId>>
  /\ UNCHANGED msgVars

\* An editSubmit that refuses an empty title.
IxEditSubmitNonEmpty ==
  /\ ixpc = "Body"
  /\ handler = "editSubmit"
  /\ IF ix[1].title = Some(<<>>)
     THEN UNCHANGED <<ixCalls, ixResp>>
     ELSE \E ok \in BOOLEAN :
            /\ ixCalls' = Append(ixCalls,
                 IxCall("modifyChannel", ix[1].channel_id, ix[1].title, FALSE, ok))
            /\ ixResp' = IF ok THEN Some(DeferredUpdate) ELSE None
  /\ ixpc' = "Done"
  /\ UNCHANGED <<ix, handler, authorId>>
  /\ UNCHANGED msgVars

\* editSubmit: rest.modifyChannel(channel_id, {name: title}), then the
\* deferred update.
IxEditSubmit ==
  /\ ixpc = "Body"
  /\ handler = "editSubmit"
  /\ \E ok \in BOOLEAN :
       /\ ixCalls' = Append(ixCalls,
            IxCall("modifyChannel", ix[1].channel_id, ix[1].title, FALSE, ok))
       /\ ixResp' = IF ok THEN Some(DeferredUpdate) ELSE None
  /\ ixpc' = "Done"
  /\ UNCHANGED <<ix, handler, authorId>>
  /\ UNCHANGED msgVars

\* The interaction is over; the next one starts from nothing.
IxEnd ==
  /\ ixpc = "Done"
  /\ ix' = None
  /\ handler' = "none"
  /\ ixpc' = "Idle"
  /\ authorId' = None
  /\ ixCalls' = <<>>
  /\ ixResp' = None
  /\ UNCHANGED msgVars

\* No message event: only interactions arrive.
InitIx ==
  /\ topicKeyword \in Keywords
  /\ inbox = [m \in Msgs |-> None]
  /\ PipelinesIdle
  /\ IxIdle

NextIx ==
  \/ \E i \in Interactions : IxReceive(i)
  \/ IxAuthorize
  \/ IxEdit
  \/ IxArchive
  \/ IxEditSubmit
  \/ IxEnd

SpecIx == InitIx /\ [][NextIx]_vars

----------------------------------------------------------------------------
(* Properties of the message pipeline. *)

Sent(m, kind) == { i \in 1..Len(calls[m]) : calls[m][i].kind = kind }

Accepted(m, kind) == \E i \in Sent(m, kind) : calls[m][i].ok

\* "{displayName}'s thread": the nickname if present, else the username.
FallbackTitle(message) ==
  (IF message.nick = None THEN message.author.username ELSE message.nick[1])
    \o <<"'", "s", " ", "t", "h", "r", "e", "a", "d">>

AllTransient(m) == \A i \in 1..Len(tries[m]) : tries[m][i] = "OpenAIError"

\* C1: when every classifier attempt for an eligible message fails with the
\* OpenAIError kind, exactly 3 attempts are made (fewer only while the
\* classification is still running), the thread is requested under the name
\* "{displayName}'s thread", and no hint message is posted.
C1_TransientFallback ==
  \A m \in Msgs :
    (tries[m] # <<>> /\ AllTransient(m)) =>
      /\ Len(tries[m]) <= 3
      /\ pc[m] = "Classify" <=> Len(tries[m]) < 3
      /\ pc[m] # "Classify" =>
           /\ Len(tries[m]) = 3
           /\ Sent(m, "hint") = {}
           /\ \A i \in Sent(m, "startThreadFromMessage") :
                calls[m][i].name = FallbackTitle(Message(m))
           /\ pc[m] \in { "PostControls", "PostHint", "Done" } =>
                Accepted(m, "startThreadFromMessage")

C1_Witness ==
  \E m \in Msgs :
    /\ pc[m] = "Done"
    /\ tries[m] = <<"OpenAIError", "OpenAIError", "OpenAIError">>
    /\ Message(m).nick # None
    /\ Accepted(m, "startThreadFromMessage")
    /\ Accepted(m, "controls")

\* C2: an attempt that fails with a kind other than OpenAIError is the last
\* attempt for that message (so a first-attempt failure of that kind leaves
\* exactly 1 attempt), and the classification used is the fallback: no code
\* examples, no code fences, title "{displayName}'s thread".
C2_PermanentNotRetried ==
  \A m \in Msgs :
    \A i \in 1..Len(tries[m]) :
      tries[m][i] = "OtherError" =>
        /\ i = Len(tries[m])
        /\ pc[m] # "Classify"
        /\ info[m] =
             Some([ short_title |-> FallbackTitle(Message(m)),
                    has_code_examples |-> FALSE,
                    has_code_fences |-> FALSE ])

C2_Witness ==
  \E m \in Msgs :
    /\ tries[m] = <<"OtherError">>
    /\ pc[m] = "Done"
    /\ Accepted(m, "startThreadFromMessage")

\* C3: once a message has passed the eligibility rules, the thread-creation
\* request is eventually issued, whatever the classifier attempts return.
C3_ThreadAlwaysRequested ==
  \A m \in Msgs :
    (pc[m] = "Classify") ~> (Sent(m, "startThreadFromMessage") # {})

C3_Witness ==
  \E m \in Msgs :
    /\ Len(tries[m]) = 2
    /\ tries[m][1] = "OpenAIError"
    /\ tries[m][2] = "OtherError"
    /\ Sent(m, "startThreadFromMessage") # {}

\* C4: no thread-creation request is ever issued for a message whose author
\* is a bot, whatever the channel is.
C4_NoThreadForBot ==
  \A m \in Msgs :
    (inbox[m] # None /\ Message(m).bot = "true") =>
      /\ calls[m] = <<>>
      /\ pc[m] \in { "Idle", "Rejected" }

C4_Witness ==
  \E m \in Msgs :
    /\ inbox[m] # None
    /\ Message(m).bot = "true"
    /\ Message(m).type = "DEFAULT"
    /\ pc[m] = "Rejected"

\* The channel answer of pipeline m carries a topic that contains the keyword.
TopicHasKeyword(m) ==
  /\ chan[m][1].topic # None
  /\ \E i \in 1..Len(chan[m][1].topic[1]) + 1 :
       \E j \in (i - 1)..Len(chan[m][1].topic[1]) :
         SubSeq(chan[m][1].topic[1], i, j) = topicKeyword

\* C5: no thread-creation request is issued for a message whose channel lookup
\* failed, or whose channel is not a guild text channel, or whose channel topic
\* does not contain the configured keyword.
C5_NoThreadOffTopic ==
  \A m \in Msgs :
    (/\ chan[m] # None
     /\ \/ ~chan[m][1].found
        \/ chan[m][1].type # "GUILD_TEXT"
        \/ ~TopicHasKeyword(m)) =>
      /\ calls[m] = <<>>
      /\ pc[m] \in { "Rejected", "Failed" }

C5_Witness ==
  \E m \in Msgs :
    /\ chan[m] # None
    /\ chan[m][1].found
    /\ chan[m][1].type = "GUILD_TEXT"
    /\ chan[m][1].topic = Some(<<"t", "a">>)
    /\ topicKeyword = <<"c", "a">>
    /\ pc[m] = "Rejected"

\* C6: at most one hint message is posted per message, only after the control
\* message was posted, and only for a classification with code examples and
\* without code fences; once the control message is posted and the pipeline
\* has ended, the hint was requested exactly when the classification used has
\* has_code_examples = TRUE and has_code_fences = FALSE.
C6_HintIffMissingFences ==
  \A m \in Msgs :
    /\ Cardinality(Sent(m, "hint")) <= 1
    /\ \A i \in Sent(m, "hint") :
         /\ i = Len(calls[m])
         /\ \E j \in Sent(m, "controls") : j < i /\ calls[m][j].ok
    /\ (Accepted(m, "controls") /\ pc[m] \in Terminal) =>
         (Sent(m, "hint") # {} <=>
            (info[m][1].has_code_examples /\ ~info[m][1].has_code_fences))

C6_Witness ==
  \E m \in Msgs :
    /\ pc[m] = "Done"
    /\ tries[m] = <<"Success">>
    /\ info[m][1].has_code_examples
    /\ ~info[m][1].has_code_fences
    /\ Len(calls[m]) = 3
    /\ calls[m][2].kind = "controls"
    /\ calls[m][3].kind = "hint"
    /\ calls[m][3].ok

\* Pipeline m met a failure of its own: its channel lookup failed or was
\* rejected, or the platform refused one of its own requests.
OwnFailure(m) ==
  \/ chan[m] # None /\ ~(chan[m][1].found /\ chan[m][1].type = "GUILD_TEXT"
                          /\ TopicHasKeyword(m))
  \/ \E i \in 1..Len(calls[m]) : ~calls[m][i].ok

\* No failure leaves its pipeline: the subscription stays active, a pipeline
\* ends short of Done only by a failure of its own, and a pipeline that is
\* Done has its own thread and its own control message, each requested once.
Isolated ==
  /\ subscription = "active"
  /\ \A m \in Msgs :
       /\ pc[m] # "Escaped"
       /\ pc[m] \in { "Rejected", "Failed" } => OwnFailure(m)
       /\ pc[m] = "Done" =>
            /\ Len(calls[m]) >= 2
            /\ calls[m][1].kind = "startThreadFromMessage"
            /\ calls[m][1].ok
            /\ calls[m][2] =
                 Call("controls", MessageId(m), <<>>,
                      << EditPrefix \o Message(m).author.id,
                         ArchivePrefix \o Message(m).author.id >>, TRUE)
            /\ Cardinality(Sent(m, "startThreadFromMessage")) = 1
            /\ Cardinality(Sent(m, "controls")) = 1

\* C10: pipelines of distinct messages do not interfere. Under every
\* interleaving of the pipelines, a failure in one (classifier, thread
\* creation, control message) is caught inside it and never fails the handler
\* or ends the subscription, and every other pipeline runs to its end, to Done
\* with its own thread and control message unless it meets a failure of its own.
C10_PipelinesIsolated ==
  /\ []Isolated
  /\ \A m \in Msgs : <>(pc[m] \in { "Done", "Rejected", "Failed" })

C10_Witness ==
  \E m \in Msgs, n \in Msgs :
    /\ m # n
    /\ pc[m] = "Failed"
    /\ Len(calls[m]) = 2
    /\ calls[m][1].ok
    /\ ~calls[m][2].ok
    /\ \E i \in 1..Len(tries[m]) : tries[m][i] # "Success"
    /\ pc[n] = "Done"
    /\ Accepted(n, "startThreadFromMessage")
    /\ Accepted(n, "controls")

----------------------------------------------------------------------------
(* Properties of the interactions. *)

\* The custom id after its first underscore.
Embedded(custom_id) ==
  SubSeq(custom_id,
         (CHOOSE k \in 1..Len(custom_id) :
            custom_id[k] = "_" /\ \A j \in 1..(k - 1) : custom_id[j] # "_") + 1,
         Len(custom_id))

\* The clicker is the embedded author or holds the manage-channels bit.
Entitled(i) ==
  \/ i.user = Embedded(i.custom_id)
  \/ i.permissions \in { ManageChannels, ManageChannels + 2048 }

Denied == ixResp # None /\ ixResp[1].flags = "EPHEMERAL"

\* C7: an edit or archive click is permitted exactly when the clicker's id is
\* the author id embedded in the custom id or the clicker's permissions hold
\* the manage-channels bit: an entitled click reaches the handler's body and
\* is never answered by the denial, any other click is answered by the denial
\* and makes no call.
C7_PermittedIffAuthorOrManage ==
  (ix # None /\ handler \in { "edit", "archive" } /\ ixpc \in { "Body", "Done" }) =>
    IF Entitled(ix[1])
    THEN ~Denied /\ (ixpc = "Body" \/ ixCalls # <<>>)
    ELSE Denied /\ ixpc = "Done" /\ ixCalls = <<>>

\* The author clicks with no permission bit at all, and is served.
C7_Witness ==
  /\ ix # None
  /\ handler = "archive"
  /\ ix[1].user = <<"2", "3">>
  /\ ix[1].custom_id = ArchivePrefix \o <<"2", "3">>
  /\ ix[1].permissions = 0
  /\ ixpc = "Done"
  /\ ixCalls # <<>>
  /\ ixResp = Some(DeferredUpdate)

\* C8: a denied archive click is answered "You don't have permission to
\* archive this thread.", a denied edit click "You don't have permission to
\* edit this thread.".
C8_DenialNamesAction ==
  (Denied /\ handler \in { "edit", "archive" }) =>
    ixResp[1].content =
      << "You don't have permission to ", handler, " this ", "thread", "." >>

\* C9: a rename or archive request is issued only within an interaction whose
\* clicker is the embedded author or holds the manage-channels bit.
C9_MutationsAuthorized ==
  \A k \in 1..Len(ixCalls) :
    ixCalls[k].op = "modifyChannel" =>
      \/ ix[1].permissions \in { ManageChannels, ManageChannels + 2048 }
      \/ /\ \E j \in 1..Len(ix[1].custom_id) : ix[1].custom_id[j] = "_"
         /\ ix[1].user = Embedded(ix[1].custom_id)

----------------------------------------------------------------------------
(* Properties of the message pipeline: order and failure of the steps. *)

\* The classification of m has resolved: the last attempt succeeded, or failed
\* with a kind that is not retried, or was the third attempt.
Resolved(m) ==
  /\ tries[m] # <<>>
  /\ \/ tries[m][Len(tries[m])] # "OpenAIError"
     \/ Len(tries[m]) = 3

\* C11: the requests of one pipeline are issued in the order thread, control
\* message, hint: the thread is requested only once the classification has
\* resolved to a result or the fallback, the control message only after the
\* thread request succeeded, the hint only after the control message succeeded.
C11_StepOrder ==
  \A m \in Msgs :
    /\ Len(calls[m]) <= 3
    /\ \A i \in 1..Len(calls[m]) :
         calls[m][i].kind = << "startThreadFromMessage", "controls", "hint" >>[i]
    /\ pc[m] \in { "Idle", "Lookup", "Classify" } => calls[m] = <<>>
    /\ calls[m] # <<>> => Resolved(m) /\ info[m] # None
    /\ Len(calls[m]) >= 2 => calls[m][1].ok
    /\ Len(calls[m]) >= 3 => calls[m][2].ok

C11_Witness ==
  \E m \in Msgs :
    /\ Len(tries[m]) = 3
    /\ tries[m][3] = "Success"
    /\ Len(calls[m]) = 3
    /\ calls[m][3].kind = "hint"
    /\ pc[m] = "Done"

\* C12: at most one thread-creation request is issued per message, also when
\* the classifier was retried and when a step failed.
C12_OneThreadRequest ==
  \A m \in Msgs : Cardinality(Sent(m, "startThreadFromMessage")) <= 1

C12_Witness ==
  \E m \in Msgs :
    /\ Len(tries[m]) = 3
    /\ Cardinality(Sent(m, "startThreadFromMessage")) = 1
    /\ ~calls[m][1].ok
    /\ pc[m] = "Failed"

\* C15: a failed thread creation ends the pipeline of its message: the request
\* is not repeated, and neither the control message nor the hint is posted.
C15_ThreadFailureStops ==
  \A m \in Msgs :
    (\E i \in Sent(m, "startThreadFromMessage") : ~calls[m][i].ok) =>
      /\ Len(calls[m]) = 1
      /\ pc[m] = "Failed"

C15_Witness ==
  \E m \in Msgs :
    /\ calls[m] # <<>>
    /\ calls[m][1].kind = "startThreadFromMessage"
    /\ ~calls[m][1].ok
    /\ info[m][1].has_code_examples
    /\ ~info[m][1].has_code_fences
    /\ pc[m] = "Failed"

----------------------------------------------------------------------------
(* Properties of the message pipeline: name, eligibility, attempts. *)

\* C13: the name of the thread request is the short title of the
\* classification used, cut to its first 100 characters: a title of at most
\* 100 characters is the name, a longer one gives a name of exactly 100
\* characters that agrees with the title character by character.
C13_NameIsFirstHundred ==
  \A m \in Msgs :
    \A i \in Sent(m, "startThreadFromMessage") :
      IF Len(info[m][1].short_title) <= 100
      THEN calls[m][i].name = info[m][1].short_title
      ELSE /\ Len(calls[m][i].name) = 100
           /\ \A k \in 1..100 : calls[m][i].name[k] = info[m][1].short_title[k]

C13_Witness ==
  \E m \in Msgs :
    /\ Sent(m, "startThreadFromMessage") # {}
    /\ Len(info[m][1].short_title) = MaxTitleLen
    /\ Len(calls[m][1].name) = 100
    /\ calls[m][1].name[100] = info[m][1].short_title[100]

\* C17: the eligibility rules short-circuit and have no effect: a message of a
\* non-default type or of a bot causes no channel lookup, and a message that a
\* rule rejected causes no classifier call, no thread request and no post.
C17_EligibilityShortCircuits ==
  \A m \in Msgs :
    inbox[m] # None =>
      /\ (Message(m).type # "DEFAULT" \/ Message(m).bot = "true") =>
           /\ chan[m] = None
           /\ pc[m] \in { "Idle", "Rejected" }
      /\ (\/ pc[m] = "Rejected"
          \/ Message(m).type # "DEFAULT"
          \/ Message(m).bot = "true"
          \/ chan[m] # None /\ ~(/\ chan[m][1].found
                                 /\ chan[m][1].type = "GUILD_TEXT"
                                 /\ TopicHasKeyword(m))) =>
           /\ tries[m] = <<>>
           /\ info[m] = None
           /\ calls[m] = <<>>

C17_Witness ==
  \E m \in Msgs :
    /\ inbox[m] # None
    /\ Message(m).type = "REPLY"
    /\ Message(m).bot = "undefined"
    /\ pc[m] = "Rejected"
    /\ chan[m] = None

\* C19: at most 3 classifier attempts are made for one message; a successful
\* attempt is the last one, and its result gives the thread name and decides
\* the hint; the fallback is used only when the last attempt made has failed.
C19_AttemptsAndResult ==
  \A m \in Msgs :
    /\ Len(tries[m]) <= 3
    /\ info[m] # None => tries[m] # <<>>
    /\ \A i \in 1..Len(tries[m]) :
         tries[m][i] = "Success" =>
           /\ i = Len(tries[m])
           /\ pc[m] # "Classify"
           /\ info[m] =
                Some([ short_title |-> Message(m).content.short_title,
                       has_code_examples |-> Message(m).content.has_code_examples,
                       has_code_fences |-> Message(m).content.has_code_fences ])
           /\ \A j \in Sent(m, "startThreadFromMessage") :
                calls[m][j].name =
                  SubSeq(Message(m).content.short_title, 1, Len(calls[m][j].name))
           /\ (Accepted(m, "controls") /\ pc[m] \in Terminal) =>
                (Sent(m, "hint") # {} <=>
                   (/\ Message(m).content.has_code_examples
                    /\ ~Message(m).content.has_code_fences))
    /\ (info[m] # None /\ info[m][1].short_title = FallbackTitle(Message(m))) =>
         tries[m][Len(tries[m])] # "Success"

C19_Witness ==
  \E m \in Msgs :
    /\ tries[m] = << "OpenAIError", "OpenAIError", "Success" >>
    /\ pc[m] = "Done"
    /\ Len(calls[m]) = 3
    /\ calls[m][1].name = Message(m).content.short_title

----------------------------------------------------------------------------
(* Properties of the interactions: submission and denial. *)

\* C14: a submission of the modal "edit" with an empty title is accepted: the
\* handler issues one rename of the interaction's channel to the empty name,
\* answers with the deferred update once the rename succeeded, and never
\* answers with a refusal.
C14_EmptyTitleAccepted ==
  (/\ ix # None
   /\ ix[1].type = "MODAL_SUBMIT"
   /\ ix[1].custom_id = << "e", "d", "i", "t" >>
   /\ ix[1].title = Some(<<>>)
   /\ ixpc = "Done") =>
    /\ Len(ixCalls) = 1
    /\ ixCalls[1].op = "modifyChannel"
    /\ ixCalls[1].target = ix[1].channel_id
    /\ ixCalls[1].name = Some(<<>>)
    /\ ~ixCalls[1].archived
    /\ ixCalls[1].ok => ixResp =
         Some([ type |-> "DEFERRED_UPDATE_MESSAGE", flags |-> "none",
                content |-> <<>>, value |-> None ])
    /\ ~ixCalls[1].ok => ixResp = None

C14_Witness ==
  /\ ix # None
  /\ handler = "editSubmit"
  /\ ix[1].title = Some(<<>>)
  /\ ix[1].permissions = 0
  /\ ixpc = "Done"
  /\ Len(ixCalls) = 1
  /\ ixCalls[1].ok
  /\ ixResp = Some(DeferredUpdate)

\* C16: the authorization precedes every other step of the edit and archive
\* handlers, and a denied click has no effect but the ephemeral answer: before
\* the check nothing was called or answered, and a click of a user who is
\* neither the embedded author nor a holder of manage-channels never reaches
\* the handler's body, makes no channel lookup and no archive request, and is
\* answered by an ephemeral message and not by a modal.
C16_DenialHasNoEffect ==
  (ix # None /\ handler \in { "edit", "archive" }) =>
    /\ ixpc = "Auth" => ixCalls = <<>> /\ ixResp = None
    /\ ~Entitled(ix[1]) =>
         /\ ixpc \in { "Auth", "Done" }
         /\ ixCalls = <<>>
         /\ ixpc = "Done" =>
              /\ ixResp # None
              /\ ixResp[1].type = "CHANNEL_MESSAGE_WITH_SOURCE"
              /\ ixResp[1].flags = "EPHEMERAL"
              /\ ixResp[1].value = None

C16_Witness ==
  /\ ix # None
  /\ handler = "edit"
  /\ ix[1].user = << "7" >>
  /\ ix[1].permissions = 2048
  /\ ixpc = "Done"
  /\ ixCalls = <<>>
  /\ Denied

----------------------------------------------------------------------------
(* Clicks on the controls a pipeline has posted. *)

\* The events of the click specification: messages that pass EligibleMessage.
ClickMessages ==
  { p \in AllMessages :
      /\ p.type = "DEFAULT"
      /\ p.bot # "true"
      /\ Len(p.content.short_title) = 2 }

\* User u, holding permissions p, clicks button k of the control message that
\* the pipeline of m posted in its thread.
IxClick(m, k, u, p) ==
  /\ inbox[m] # None
  /\ \E j \in 1..Len(calls[m]) :
       /\ calls[m][j].kind = "controls"
       /\ calls[m][j].ok
       /\ IxReceive([ type |-> "MESSAGE_COMPONENT",
                      custom_id |-> calls[m][j].custom_ids[k],
                      user |-> u, permissions |-> p,
                      channel_id |-> calls[m][j].target, title |-> None ])

InitClick ==
  /\ topicKeyword = <<"c", "a">>
  /\ \E p \in ClickMessages :
       inbox = [m \in Msgs |-> IF m = 1 THEN Some(p) ELSE None]
  /\ PipelinesIdle
  /\ IxIdle

NextClick ==
  \/ \E m \in Msgs : Dispatch(m)
  \/ \E m \in Msgs : Lookup(m)
  \/ \E m \in Msgs : Classify(m)
  \/ \E m \in Msgs : CreateThread(m)
  \/ \E m \in Msgs : PostControls(m)
  \/ \E m \in Msgs : PostHint(m)
  \/ \E m \in Msgs, k \in 1..2, u \in ClickerIds, p \in PermissionSets :
       IxClick(m, k, u, p)
  \/ IxAuthorize
  \/ IxEdit
  \/ IxArchive
  \/ IxEnd

SpecClick == InitClick /\ [][NextClick]_vars

\* The interaction in progress is a click of the author of message m on a
\* control of m's thread.
AuthorClicks(m) ==
  /\ ix # None
  /\ inbox[m] # None
  /\ ix[1].channel_id = MessageId(m)
  /\ ix[1].user = Message(m).author.id

\* C18: a click of a message's author on either control of the thread opened
\* for that message is authorized whatever the author's permissions are: the
\* custom id clicked is edit_ or archive_ followed by the author's id, the id
\* the authorizer recovers from it is the author's id, and the click reaches
\* the handler's body and is never answered by the denial.
C18_AuthorClickAuthorized ==
  \A m \in Msgs :
    AuthorClicks(m) =>
      /\ ix[1].custom_id \in
           { << "e", "d", "i", "t", "_" >> \o Message(m).author.id,
             << "a", "r", "c", "h", "i", "v", "e", "_" >> \o Message(m).author.id }
      /\ ixpc \in { "Body", "Done" } =>
           /\ authorId = Some(Message(m).author.id)
           /\ ~Denied
           /\ ixpc = "Body" \/ ixCalls # <<>>

C18_Witness ==
  \E m \in Msgs :
    /\ AuthorClicks(m)
    /\ Message(m).author.id = << "2", "3" >>
    /\ ix[1].permissions = 0
    /\ handler = "edit"
    /\ ixpc = "Done"
    /\ ixResp = Some(Modal(<< "o", "l", "d" >>))

----------------------------------------------------------------------------
(* The author id parsed from any custom id the two handlers accept. *)

\* Every remainder of at most MaxIdLen characters, underscores included.
IdTails == UNION { [1..n -> { "1", "_" }] : n \in 0..MaxIdLen }

ParseInteractions ==
  [ type : { "MESSAGE_COMPONENT" },
    custom_id : { EditPrefix \o t : t \in IdTails }
                \cup { ArchivePrefix \o t : t \in IdTails },
    user : ClickerIds, permissions : { 0, ManageChannels },
    channel_id : { "1" }, title : { None } ]

NextParse ==
  \/ \E i \in ParseInteractions : IxReceive(i)
  \/ IxAuthorize
  \/ IxEdit
  \/ IxArchive
  \/ IxEnd

SpecParse == InitIx /\ [][NextParse]_vars

\* withEditPermissions has parsed the custom id of the interaction in progress.
Parsed == ix # None /\ handler \in { "edit", "archive" } /\ ixpc \in { "Body", "Done" }

\* C20 as stated: the author id compared is everything after the first
\* underscore of the custom id, also when that remainder holds an underscore.
C20_AuthorIdIsRemainder ==
  Parsed => authorId = Some(Embedded(ix[1].custom_id))

\* C20: the author id compared is the part of the custom id between its first
\* underscore and its second: the whole remainder after the first underscore
\* when the remainder holds no underscore, and the remainder up to its first
\* underscore otherwise.
C20_AuthorIdIsSecondPart ==
  Parsed =>
    \E n \in 0..Len(Embedded(ix[1].custom_id)) :
      /\ authorId = Some(SubSeq(Embedded(ix[1].custom_id), 1, n))
      /\ \A k \in 1..n : Embedded(ix[1].custom_id)[k] # "_"
      /\ \/ n = Len(Embedded(ix[1].custom_id))
         \/ Embedded(ix[1].custom_id)[n + 1] = "_"

C20_Witness ==
  /\ Parsed
  /\ ix[1].custom_id = EditPrefix \o << "1", "_", "1" >>
  /\ authorId = Some(<< "1" >>)
  /\ ix[1].user = << "1" >>
  /\ ix[1].permissions = 0
  /\ ixpc = "Body"

====
